---- MODULE Spec2Model ----
(***************************************************************************)
(* Smoothed-aggregation AMG engine of cusp                                 *)
(* (cusp/precond/aggregation/detail/smoothed_aggregation.inl):             *)
(* hierarchy construction (init / extend_hierarchy), the recursive V-cycle *)
(* (_solve), the single application operator(), the outer iteration       *)
(* solve(b, x, monitor) and the diagnostics.                               *)
(*                                                                         *)
(* Abstraction of the numerics.  ValueType is modelled by the ring         *)
(* Z_Modulus.  A vector of n entries is its length together with Dim(n)    *)
(* ring values (its content): one for the entries 1..Threshold and one for *)
(* every entry above.  A matrix is its shape together with one ring value: *)
(* it multiplies the components of a content it has columns for, and       *)
(* yields 0 in the components it has no column for, so that a prolongator  *)
(* embeds the coarse content in the fine one and its transpose truncates.  *)
(* All operators drawn as inputs of solve and operator() are units of the  *)
(* ring (1 and -1), so the coarsest operator is always invertible and the  *)
(* direct solve is exact; the diagnostics (print, operator_complexity,     *)
(* grid_complexity) are also run on an operator without stored entries.    *)
(* Operations of collaborators on operands of non-matching dimensions are  *)
(* not defined by the sources: the step is taken, its result is some       *)
(* content, and the call ends in pc = "fault", after which nothing is      *)
(* modelled.                                                               *)
(***************************************************************************)
EXTENDS Integers, Sequences, FiniteSets, TLC

\* ------------------------------------------------------------------ bounds
Modulus   == 5   \* ValueType is modelled by Z_Modulus
RowSpan   == 2   \* input row counts range up to Threshold + RowSpan
MaxLevels == 3   \* cap on the number of levels the build may append
MaxIter   == 2   \* largest iteration limit of a monitor
MaxCalls  == 2   \* number of solve / operator() calls on one hierarchy

\* -------------------------------------------------------- program constant
Threshold == 100 \* init stops coarsening at A_.num_rows <= 100

\* ------------------------------------------------------------- value types
Ring  == 0 .. (Modulus - 1)
Units == {u \in Ring : \E v \in Ring : (u * v) % Modulus = 1}

Add(u, v) == (u + v) % Modulus
Mul(u, v) == (u * v) % Modulus
Neg(u)    == (Modulus - u) % Modulus
Inv(u)    == CHOOSE v \in Ring : (u * v) % Modulus = 1

\* row counts of the levels the build appends, and of the input operator
Sizes      == Threshold .. (Threshold + RowSpan)
InputSizes == {1} \cup Sizes

\* contents of the input operators (1 and -1) and of the prolongators (-1),
\* relaxation weights a smoother may be built with, contents of caller
\* vectors (every component the same)
Diagonals == {1, Modulus - 1}
Prolongs  == {Modulus - 1}
Weights  == {1}
Inputs   == {0, 1}

\* the number of components that stand for a vector of n entries
Dim(n) == IF n > Threshold THEN n - Threshold + 1 ELSE IF n > 0 THEN 1 ELSE 0

Fill(n, c)   == [k \in 1 .. Dim(n) |-> c]
Vec(n, v)    == [len |-> n, val |-> v]
Zeros(n)     == Vec(n, Fill(n, 0))
NoVec        == Zeros(0)
IsZero(v)    == \A k \in 1 .. Len(v.val) : v.val[k] = 0
Mat(r, c, v) == [rows |-> r, cols |-> c, val |-> v]
NoMat        == Mat(0, 0, 0)
NoSmoother   == [set |-> FALSE, omega |-> 0]

\* a default-constructed level (levels.push_back(level()))
level ==
    [A_ |-> NoMat, A |-> NoMat, B |-> NoVec, aggregates |-> NoVec,
     R |-> NoMat, P |-> NoMat, smoother |-> NoSmoother,
     residual |-> NoVec, x |-> NoVec, b |-> NoVec]

\* ----------------------------------------------------------- collaborators
\* componentwise u + v, u - v and c*u of contents
VAdd(u, v)   == [k \in 1 .. Len(u) |-> Add(u[k], v[k])]
VSub(u, v)   == [k \in 1 .. Len(u) |-> Add(u[k], Neg(v[k]))]
VScale(c, u) == [k \in 1 .. Len(u) |-> Mul(c, u[k])]

\* the content of M*v
MatVec(M, v) ==
    [k \in 1 .. Dim(M.rows) |-> IF k <= Len(v) THEN Mul(M.val, v[k]) ELSE 0]

\* what an operation may leave in a vector of n entries when its operands
\* do not match
Garbage(n) == {Fill(n, c) : c \in Inputs}

\* cusp::transpose
Transpose(M) == Mat(M.cols, M.rows, M.val)

\* cusp::multiply, matrix * matrix
MatMul(M, N) == Mat(M.rows, N.cols, Mul(M.val, N.val))

\* cusp::multiply(M, v, y), matrix * vector: the possible contents of y
MultiplyOk(M, v, y) == M.cols = v.len /\ M.rows = y.len

MultiplyVals(M, v, y) ==
    IF MultiplyOk(M, v, y) THEN {MatVec(M, v.val)} ELSE Garbage(y.len)

\* cusp::blas::axpby(b, y, y, 1, -1) after cusp::multiply(M, x, y):
\* the possible contents of y = b - M*x
ResidualOk(M, b, x, y) == M.cols = x.len /\ M.rows = y.len /\ b.len = y.len

ResidualVals(M, b, x, y) ==
    IF ResidualOk(M, b, x, y)
    THEN {VSub(b.val, MatVec(M, x.val))}
    ELSE Garbage(y.len)

\* cusp::blas::axpy(u, x, 1): the possible contents of x + u
AxpyOk(u, x) == u.len = x.len

AxpyVals(u, x) ==
    IF AxpyOk(u, x) THEN {VAdd(x.val, u.val)} ELSE Garbage(x.len)

\* smoother.presmooth(A, b, x) and smoother.postsmooth(A, b, x): one
\* relaxation sweep x <- x + omega*(b - A*x), starting from the x handed in
SmoothOk(M, b, x) == M.cols = x.len /\ M.rows = b.len /\ b.len = x.len

SmoothVals(s, M, b, x) ==
    IF SmoothOk(M, b, x)
    THEN {VAdd(x.val, VScale(s.omega, VSub(b.val, MatVec(M, x.val))))}
    ELSE Garbage(x.len)

\* lu_solver::operator()(b, x): the possible contents of x with LU*x = b
LUSolveOk(F, b, x) == F.rows = b.len /\ F.rows = x.len

LUSolveVals(F, b, x) ==
    IF LUSolveOk(F, b, x)
    THEN {VScale(Inv(F.val), b.val)}
    ELSE Garbage(x.len)

\* monitor.finished(r): an iteration limit, with or without a residual test
Finished(mon, r) ==
    \/ mon.count >= mon.limit
    \/ mon.kind = "residual" /\ IsZero(r)

\* the monitors handed to solve: iteration limits of none, one and MaxIter
\* V-cycles, and one that also stops at a zero residual
Monitors ==
    [kind : {"iteration"}, limit : {0, 1, MaxIter}, count : {0}]
    \cup [kind : {"residual"}, limit : {MaxIter}, count : {0}]
NoMonitor == [kind |-> "iteration", limit |-> 0, count |-> 0]

\* standard_aggregation: every row gets one aggregate id, so the number of
\* aggregates of an n-row operator is anywhere in 1..n (n singletons
\* allowed); the counts drawn are those of Sizes
AggregateCounts(n) == {m \in Sizes : m <= n}

\* ------------------------------------------------------------ diagnostics
IndexBits == 8    \* IndexType is a signed integer of IndexBits bits
SizeBits  == 16   \* size_t is an unsigned integer of SizeBits bits

\* conversion of an integer to size_t and to IndexType (two's complement)
ToSizeT(n) == n % (2 ^ SizeBits)

ToIndexType(n) ==
    LET m == n % (2 ^ IndexBits)
    IN IF m >= 2 ^ (IndexBits - 1) THEN m - 2 ^ IndexBits ELSE m

\* (double) n / (double) d: a quotient, an infinity for n # 0 and d = 0, and
\* not a number for 0 / 0
Quotient(n, d) ==
    [kind |-> IF d # 0 THEN "finite" ELSE IF n # 0 THEN "inf" ELSE "nan",
     num |-> n, den |-> d]

\* q >= 1.0 and q == 1.0 of a double q (both false of a NaN)
AtLeastOne(q) ==
    \/ q.kind = "inf" /\ q.num > 0
    \/ q.kind = "finite" /\ q.den > 0 /\ q.num >= q.den
    \/ q.kind = "finite" /\ q.den < 0 /\ q.num <= q.den

ExactlyOne(q) == q.kind = "finite" /\ q.num = q.den

\* num_entries of a matrix: a stored entry per row and column it couples,
\* none when it holds no value
NumEntries(M) ==
    IF M.val = 0 THEN 0 ELSE IF M.rows <= M.cols THEN M.rows ELSE M.cols

NoValue  == [called |-> FALSE, total |-> 0, value |-> Quotient(0, 1)]
NoOutput ==
    [called |-> FALSE, num_levels |-> 0, operator_complexity |-> Quotient(0, 1),
     grid_complexity |-> Quotient(0, 1), nnz |-> 0, lines |-> <<>>]
NoReport ==
    [print |-> NoOutput, operator_complexity |-> NoValue,
     grid_complexity |-> NoValue]

VARIABLES
    inA,        \* the operator handed to the constructor
    sameType,   \* SetupMatrixType and SolveMatrixType are the same type
    levels,     \* std::vector<level>
    LU,         \* the coarsest-level factorization
    pc,         \* position of the control flow
    call,       \* the arguments and locals of the running solve / operator()
    lvl,        \* the level index i of the running _solve
    trace,      \* history: the steps of the running V-cycle, in order
    slog,       \* history: the steps of the running solve, in order
    ncalls,     \* history: the number of calls made on the hierarchy
    report      \* what print, operator_complexity and grid_complexity gave

vars == <<inA, sameType, levels, LU, pc, call, lvl, trace, slog, ncalls, report>>

build == <<inA, sameType, LU>>

Back == levels[Len(levels)]

\* levels[i] of the source (0-based)
Level(i) == levels[i + 1]

NoCall ==
    [kind |-> "none", b |-> NoVec, x |-> NoVec, x0 |-> NoVec,
     monitor |-> NoMonitor, update |-> NoVec, residual |-> NoVec]

\* detail::setup_level_matrix(dst, src): swap when the types agree, copy
\* otherwise.  The pair is <<dst', src'>>.
setup_level_matrix(dst, src) ==
    IF sameType THEN <<src, dst>> ELSE <<src, src>>

Init ==
    /\ inA \in {Mat(n, n, a) : n \in InputSizes, a \in Diagonals}
    /\ sameType \in BOOLEAN
    /\ levels = <<>>
    /\ LU = [set |-> FALSE, rows |-> 0, val |-> 0]
    /\ pc = "init"
    /\ call = NoCall
    /\ lvl = 0
    /\ trace = <<>>
    /\ slog = <<>>
    /\ ncalls = 0
    /\ report = NoReport

\* ------------------------------------------------------------------- build
\* init, lines 97-101: the finest level
InitFinest ==
    /\ pc = "init"
    /\ levels' = <<[level EXCEPT !.A_ = inA, !.B = Vec(inA.rows, Fill(inA.rows, 1))]>>
    /\ pc' = "extend"
    /\ UNCHANGED <<report, build, call, lvl, trace, slog, ncalls>>

\* extend_hierarchy, lines 170-172: the restriction operator built from P
RestrictionOf_Copy(P) == P

RestrictionOf(P) == Transpose(P)

\* extend_hierarchy, lines 174-181, with R and P still the locals they were
\* computed into; after lines 186-187 the locals hold what
\* setup_level_matrix left in its source
GalerkinProduct_AfterMove(A, R, P) ==
    MatMul(setup_level_matrix(NoMat, R)[2],
           MatMul(A, setup_level_matrix(NoMat, P)[2]))

\* extend_hierarchy, lines 174-181: the Galerkin product R*(A*P)
GalerkinProduct(A, R, P) == MatMul(R, MatMul(A, P))

CoarseLevel_Unsized(RAP, m) ==
    [level EXCEPT !.A_ = RAP, !.B = Vec(m, Fill(m, 1))]

CoarseLevel_WithResidual(RAP, m) ==
    [level EXCEPT
       !.A_ = RAP,
       !.B  = Vec(m, Fill(m, 1)),
       !.x  = Zeros(RAP.rows),
       !.b  = Zeros(RAP.rows),
       !.residual = Zeros(RAP.rows)]

\* extend_hierarchy, lines 190-194: the level appended, its work vectors
\* sized to the rows of its operator
CoarseLevel(RAP, m) ==
    [level EXCEPT
       !.A_ = RAP,
       !.B  = Vec(m, Fill(m, 1)),
       !.x  = Zeros(RAP.rows),
       !.b  = Zeros(RAP.rows)]

\* extend_hierarchy, one pass of the loop of init (lines 103-104)
extend_hierarchy ==
    /\ pc = "extend"
    /\ Back.A_.rows > Threshold
    /\ Len(levels) < MaxLevels
    /\ \E m \in AggregateCounts(Back.A_.rows), p \in Prolongs, w \in Weights :
         LET n    == Back.A_.rows
             P    == Mat(n, m, p)
             R    == RestrictionOf(P)
             RAP  == GalerkinProduct(Back.A_, R, P)
             fine == [Back EXCEPT
                        !.smoother   = [set |-> TRUE, omega |-> w],
                        !.aggregates = Zeros(n),
                        !.R          = setup_level_matrix(Back.R, R)[1],
                        !.P          = setup_level_matrix(Back.P, P)[1],
                        !.residual   = Zeros(Back.A_.rows)]
             coarse == CoarseLevel(RAP, m)
         IN levels' = Append([levels EXCEPT ![Len(levels)] = fine], coarse)
    /\ UNCHANGED <<report, build, pc, call, lvl, trace, slog, ncalls>>

BuildLU_FromFinest ==
    /\ pc = "extend"
    /\ Back.A_.rows <= Threshold
    /\ LU' = [set |-> TRUE, rows |-> levels[1].A_.rows, val |-> levels[1].A_.val]
    /\ pc' = "setup"
    /\ UNCHANGED <<report, inA, sameType, levels, call, lvl, trace, slog, ncalls>>

\* init, lines 107-108: dense copy of the last level's operator, factorized
BuildLU ==
    /\ pc = "extend"
    /\ Back.A_.rows <= Threshold
    /\ LU' = [set |-> TRUE, rows |-> Back.A_.rows, val |-> Back.A_.val]
    /\ pc' = "setup"
    /\ UNCHANGED <<report, inA, sameType, levels, call, lvl, trace, slog, ncalls>>

\* init, lines 111-113: the solve-time operator of every level
SetupSolveMatrices ==
    /\ pc = "setup"
    /\ levels' = [l \in 1 .. Len(levels) |->
                    IF l = 1 THEN [levels[l] EXCEPT !.A = inA]
                    ELSE LET s == setup_level_matrix(levels[l].A, levels[l].A_)
                         IN [levels[l] EXCEPT !.A = s[1], !.A_ = s[2]]]
    /\ pc' = "ready"
    /\ UNCHANGED <<report, build, call, lvl, trace, slog, ncalls>>

\* ----------------------------------------------------------------- V-cycle
\* the b and x arguments of _solve(b, x, i): the caller's at i = 0
\* (solve passes residual and update, operator() passes b and x),
\* levels[i].b and levels[i].x below (line 281)
ArgB_RightHandSide(i) ==
    IF i > 0 THEN Level(i).b ELSE call.b

ArgB(i) ==
    IF i > 0 THEN Level(i).b
    ELSE IF call.kind = "solve" THEN call.residual ELSE call.b

ArgX(i) ==
    IF i > 0 THEN Level(i).x
    ELSE IF call.kind = "solve" THEN call.update ELSE call.x

\* x of _solve(b, x, i) is a reference: writing it writes the caller's vector
CallWithX(i, c) ==
    IF i > 0 THEN call
    ELSE IF call.kind = "solve"
         THEN [call EXCEPT !.update = Vec(call.update.len, c)]
         ELSE [call EXCEPT !.x = Vec(call.x.len, c)]

LevelsWithX(L, i, c) ==
    IF i > 0 THEN [L EXCEPT ![i + 1].x = Vec(L[i + 1].x.len, c)] ELSE L

\* the return of _solve(b, x, i): to line 284 of the caller level, or out of
\* the V-cycle to operator() (line 207) or solve (line 243)
ReturnPc_SkipCorrection(i) ==
    IF i > 0 THEN "v_postsmooth"
    ELSE IF call.kind = "solve" THEN "s_update" ELSE "done"

ReturnPc(i) ==
    IF i > 0 THEN "v_correct"
    ELSE IF call.kind = "solve" THEN "s_update" ELSE "done"

ReturnLvl(i) == IF i > 0 THEN i - 1 ELSE 0

\* _solve, line 259: the test that selects the coarse grid solve
IsCoarsest(i) == i + 1 = Len(levels)

\* the operands of the step at pc have matching dimensions
StepConforms ==
    CASE pc \in {"s_residual0", "s_residual"} ->
           ResidualOk(Level(0).A, call.b, call.x, call.residual)
      [] pc = "s_update" ->
           AxpyOk(call.update, call.x)
      [] pc = "v_enter" /\ IsCoarsest(lvl) ->
           LUSolveOk(LU, ArgB(lvl), ArgX(lvl))
      [] pc \in {"v_enter", "v_postsmooth"} /\ ~IsCoarsest(lvl) ->
           SmoothOk(Level(lvl).A, ArgB(lvl), ArgX(lvl))
      [] pc = "v_residual" ->
           ResidualOk(Level(lvl).A, ArgB(lvl), ArgX(lvl), Level(lvl).residual)
      [] pc = "v_restrict" ->
           MultiplyOk(Level(lvl).R, Level(lvl).residual, Level(lvl + 1).b)
      [] pc = "v_correct" ->
           /\ MultiplyOk(Level(lvl).P, Level(lvl + 1).x, Level(lvl).residual)
           /\ AxpyOk(Level(lvl).residual, ArgX(lvl))
      [] OTHER -> TRUE

\* where the step at pc goes on to: p, unless a collaborator was handed
\* operands of non-matching dimensions
Goto(p) == IF StepConforms THEN p ELSE "fault"

CoarseResult_FromIterate(i) == LUSolveVals(LU, ArgX(i), ArgX(i))

\* _solve, lines 263-266: what LU(temp_b, temp_x) leaves in x
CoarseResult(i) == LUSolveVals(LU, ArgB(i), ArgX(i))

\* _solve, lines 263-266: coarse grid solve
CoarseSolve ==
    /\ pc = "v_enter"
    /\ IsCoarsest(lvl)
    /\ \E c \in CoarseResult(lvl) :
         /\ call' = CallWithX(lvl, c)
         /\ levels' = LevelsWithX(levels, lvl, c)
    /\ trace' = Append(trace, <<"coarse", lvl>>)
    /\ pc' = Goto(ReturnPc(lvl))
    /\ lvl' = ReturnLvl(lvl)
    /\ UNCHANGED <<report, build, slog, ncalls>>

\* _solve, line 271: presmooth
Presmooth ==
    /\ pc = "v_enter"
    /\ ~IsCoarsest(lvl)
    /\ \E c \in SmoothVals(Level(lvl).smoother, Level(lvl).A, ArgB(lvl), ArgX(lvl)) :
         /\ call' = CallWithX(lvl, c)
         /\ levels' = LevelsWithX(levels, lvl, c)
    /\ trace' = Append(trace, <<"presmooth", lvl>>)
    /\ pc' = Goto("v_residual")
    /\ UNCHANGED <<report, build, lvl, slog, ncalls>>

\* _solve, lines 274-275: residual <- b - A*x
ComputeResidual ==
    /\ pc = "v_residual"
    /\ \E c \in ResidualVals(Level(lvl).A, ArgB(lvl), ArgX(lvl), Level(lvl).residual) :
         levels' = [levels EXCEPT ![lvl + 1].residual = Vec(@.len, c)]
    /\ trace' = Append(trace, <<"residual", lvl>>)
    /\ pc' = Goto("v_restrict")
    /\ UNCHANGED <<report, build, call, lvl, slog, ncalls>>

Restrict_IntoNullSpace ==
    /\ pc = "v_restrict"
    /\ \E c \in MultiplyVals(Level(lvl).R, Level(lvl).residual, Level(lvl + 1).b) :
         levels' = [levels EXCEPT ![lvl + 2].B = Vec(@.len, c)]
    /\ trace' = Append(trace, <<"restrict", lvl>>)
    /\ pc' = Goto("v_recurse")
    /\ UNCHANGED <<report, build, call, lvl, slog, ncalls>>

\* _solve, line 278: restrict to coarse grid
Restrict ==
    /\ pc = "v_restrict"
    /\ \E c \in MultiplyVals(Level(lvl).R, Level(lvl).residual, Level(lvl + 1).b) :
         levels' = [levels EXCEPT ![lvl + 2].b = Vec(@.len, c)]
    /\ trace' = Append(trace, <<"restrict", lvl>>)
    /\ pc' = Goto("v_recurse")
    /\ UNCHANGED <<report, build, call, lvl, slog, ncalls>>

\* _solve, line 281: compute coarse grid solution (the recursive call)
Recurse ==
    /\ pc = "v_recurse"
    /\ trace' = Append(trace, <<"recurse", lvl>>)
    /\ lvl' = lvl + 1
    /\ pc' = "v_enter"
    /\ UNCHANGED <<report, build, levels, call, slog, ncalls>>

\* _solve, lines 284-285: apply coarse grid correction
Correct ==
    /\ pc = "v_correct"
    /\ \E r \in MultiplyVals(Level(lvl).P, Level(lvl + 1).x, Level(lvl).residual) :
         LET res == Vec(Level(lvl).residual.len, r)
         IN \E c \in AxpyVals(res, ArgX(lvl)) :
              /\ call' = CallWithX(lvl, c)
              /\ levels' = LevelsWithX([levels EXCEPT ![lvl + 1].residual = res], lvl, c)
    /\ trace' = Append(trace, <<"correct", lvl>>)
    /\ pc' = Goto("v_postsmooth")
    /\ UNCHANGED <<report, build, lvl, slog, ncalls>>

\* _solve, line 288: postsmooth, and the return
Postsmooth ==
    /\ pc = "v_postsmooth"
    /\ \E c \in SmoothVals(Level(lvl).smoother, Level(lvl).A, ArgB(lvl), ArgX(lvl)) :
         /\ call' = CallWithX(lvl, c)
         /\ levels' = LevelsWithX(levels, lvl, c)
    /\ trace' = Append(trace, <<"postsmooth", lvl>>)
    /\ pc' = Goto(ReturnPc(lvl))
    /\ lvl' = ReturnLvl(lvl)
    /\ UNCHANGED <<report, build, slog, ncalls>>

\* ---------------------------------------------------------------- callers
\* the (b, x) a caller may hand in for a finest operator of n rows: of the
\* right lengths, or one of them an entry too long
Args(n) ==
    {<<Vec(n, Fill(n, bv)), Vec(n, Fill(n, xv))>> : bv \in Inputs, xv \in Inputs}
    \cup {<<Vec(n + 1, Fill(n + 1, 1)), Vec(n, Fill(n, 1))>>,
          <<Vec(n, Fill(n, 1)), Vec(n + 1, Fill(n + 1, 1))>>}

CanCall == pc \in {"ready", "done"} /\ ncalls < MaxCalls

\* operator()(b, x), line 206: perform 1 V-cycle
Apply ==
    /\ CanCall
    /\ \E bx \in Args(Level(0).A.rows) :
         call' = [NoCall EXCEPT !.kind = "apply", !.b = bx[1],
                                !.x = bx[2], !.x0 = bx[2]]
    /\ lvl' = 0
    /\ trace' = <<>>
    /\ slog' = <<>>
    /\ ncalls' = ncalls + 1
    /\ pc' = "v_enter"
    /\ UNCHANGED <<report, build, levels>>

\* solve(b, x, monitor), lines 228-232: the locals update and residual
Solve ==
    /\ CanCall
    /\ \E bx \in Args(Level(0).A.rows), mon \in Monitors :
         LET n == Level(0).A.rows
         IN call' = [kind |-> "solve", b |-> bx[1], x |-> bx[2], x0 |-> bx[2],
                     monitor |-> mon, update |-> Zeros(n), residual |-> Zeros(n)]
    /\ lvl' = 0
    /\ trace' = <<>>
    /\ slog' = <<>>
    /\ ncalls' = ncalls + 1
    /\ pc' = "s_residual0"
    /\ UNCHANGED <<report, build, levels>>

\* solve, lines 235-236 and 246-247: residual <- b - A*x
SolveResidualStep(next) ==
    /\ \E c \in ResidualVals(Level(0).A, call.b, call.x, call.residual) :
         call' = [call EXCEPT !.residual = Vec(@.len, c)]
    /\ slog' = Append(slog, "residual")
    /\ pc' = Goto(next)
    /\ UNCHANGED <<report, build, levels, lvl, trace, ncalls>>

\* solve, lines 235-236: compute initial residual
SolveInitialResidual ==
    /\ pc = "s_residual0"
    /\ SolveResidualStep("s_test")

\* solve, line 238: the monitor is finished, solve returns
SolveReturn ==
    /\ pc = "s_test"
    /\ Finished(call.monitor, call.residual)
    /\ pc' = "done"
    /\ UNCHANGED <<report, build, levels, call, lvl, trace, slog, ncalls>>

\* solve, lines 238-240: the monitor is not finished, one V-cycle on residual
SolveCycle ==
    /\ pc = "s_test"
    /\ ~Finished(call.monitor, call.residual)
    /\ lvl' = 0
    /\ trace' = <<>>
    /\ slog' = Append(slog, "vcycle")
    /\ pc' = "v_enter"
    /\ UNCHANGED <<report, build, levels, call, ncalls>>

SolveUpdate_Assign ==
    /\ pc = "s_update"
    /\ call' = [call EXCEPT !.x = Vec(@.len, call.update.val)]
    /\ slog' = Append(slog, "update")
    /\ pc' = Goto("s_residual")
    /\ UNCHANGED <<report, build, levels, lvl, trace, ncalls>>

\* solve, line 243: x += M * r
SolveUpdate ==
    /\ pc = "s_update"
    /\ \E c \in AxpyVals(call.update, call.x) :
         call' = [call EXCEPT !.x = Vec(@.len, c)]
    /\ slog' = Append(slog, "update")
    /\ pc' = Goto("s_residual")
    /\ UNCHANGED <<report, build, levels, lvl, trace, ncalls>>

\* solve, lines 246-247: update residual
SolveResidual ==
    /\ pc = "s_residual"
    /\ SolveResidualStep("s_increment")

SolveIncrement_NoAdvance ==
    /\ pc = "s_increment"
    /\ call' = call
    /\ slog' = Append(slog, "increment")
    /\ pc' = "s_test"
    /\ UNCHANGED <<report, build, levels, lvl, trace, ncalls>>

\* solve, line 248: ++monitor
SolveIncrement ==
    /\ pc = "s_increment"
    /\ call' = [call EXCEPT !.monitor.count = @ + 1]
    /\ slog' = Append(slog, "increment")
    /\ pc' = "s_test"
    /\ UNCHANGED <<report, build, levels, lvl, trace, ncalls>>

\* ------------------------------------------------------------ diagnostics
\* operator_complexity, lines 321-324: nnz after the first k levels
RECURSIVE OperatorNnz(_)
OperatorNnz(k) ==
    IF k = 0 THEN 0
    ELSE ToSizeT(OperatorNnz(k - 1) + NumEntries(levels[k].A))

\* operator_complexity, line 326: the value returned
OperatorComplexity ==
    Quotient(OperatorNnz(Len(levels)), NumEntries(Level(0).A))

\* grid_complexity, lines 333-335: unknowns after the first k levels
RECURSIVE GridUnknowns(_)
GridUnknowns(k) ==
    IF k = 0 THEN 0
    ELSE ToSizeT(GridUnknowns(k - 1) + levels[k].A.rows)

\* grid_complexity, line 337: the value returned
GridComplexity == Quotient(GridUnknowns(Len(levels)), Level(0).A.rows)

\* print, lines 303-306: nnz after the first k levels; nnz is converted to
\* size_t for the sum, and the sum back to IndexType
RECURSIVE PrintNnz(_)
PrintNnz(k) ==
    IF k = 0 THEN 0
    ELSE ToIndexType(ToSizeT(ToSizeT(PrintNnz(k - 1)) + NumEntries(levels[k].A)))

CanReport == pc \in {"ready", "done"}

\* operator_complexity(), lines 317-327
operator_complexity ==
    /\ CanReport
    /\ report' = [report EXCEPT !.operator_complexity =
                     [called |-> TRUE, total |-> OperatorNnz(Len(levels)),
                      value |-> OperatorComplexity]]
    /\ UNCHANGED <<build, levels, pc, call, lvl, trace, slog, ncalls>>

\* grid_complexity(), lines 329-338
grid_complexity ==
    /\ CanReport
    /\ report' = [report EXCEPT !.grid_complexity =
                     [called |-> TRUE, total |-> GridUnknowns(Len(levels)),
                      value |-> GridComplexity]]
    /\ UNCHANGED <<build, levels, pc, call, lvl, trace, slog, ncalls>>

\* print(), lines 292-315: what is written to std::cout
print ==
    /\ CanReport
    /\ LET nnz == PrintNnz(Len(levels))
       IN report' = [report EXCEPT !.print =
            [called |-> TRUE,
             num_levels |-> ToIndexType(Len(levels)),
             operator_complexity |-> OperatorComplexity,
             grid_complexity |-> GridComplexity,
             nnz |-> nnz,
             lines |-> [index \in 1 .. Len(levels) |->
                          [index |-> index - 1,
                           unknowns |-> levels[index].A.cols,
                           nonzeros |-> NumEntries(levels[index].A),
                           percent |-> Quotient(NumEntries(levels[index].A), nnz)]]]]
    /\ UNCHANGED <<build, levels, pc, call, lvl, trace, slog, ncalls>>

Next ==
    \/ InitFinest
    \/ extend_hierarchy
    \/ BuildLU
    \/ SetupSolveMatrices
    \/ Apply
    \/ Solve
    \/ CoarseSolve
    \/ Presmooth
    \/ ComputeResidual
    \/ Restrict
    \/ Recurse
    \/ Correct
    \/ Postsmooth
    \/ SolveInitialResidual
    \/ SolveReturn
    \/ SolveCycle
    \/ SolveUpdate
    \/ SolveResidual
    \/ SolveIncrement

Spec == Init /\ [][Next]_vars

\* the sequential program takes its next step whenever it has one
FairSpec == Spec /\ WF_vars(Next)

\* the program of a caller that builds a hierarchy, from any operator, one
\* with no stored entry included, and asks for its diagnostics only
ReportInit ==
    /\ inA \in {Mat(n, n, a) : n \in InputSizes, a \in {0} \cup Diagonals}
    /\ sameType \in BOOLEAN
    /\ levels = <<>>
    /\ LU = [set |-> FALSE, rows |-> 0, val |-> 0]
    /\ pc = "init"
    /\ call = NoCall
    /\ lvl = 0
    /\ trace = <<>>
    /\ slog = <<>>
    /\ ncalls = 0
    /\ report = NoReport

ReportNext ==
    \/ InitFinest
    \/ extend_hierarchy
    \/ BuildLU
    \/ SetupSolveMatrices
    \/ print
    \/ operator_complexity
    \/ grid_complexity

ReportSpec == ReportInit /\ [][ReportNext]_vars

\* ------------------------------------------------------------ vocabulary
Built == pc \notin {"init", "extend", "setup"}

NumLevels == Len(levels)

\* the running call was handed b and x of the finest operator's row count
Conformant ==
    /\ call.kind # "none"
    /\ call.b.len = Level(0).A.rows
    /\ call.x.len = Level(0).A.rows

\* the V-cycle that was started last has returned to its caller
CycleDone ==
    \/ pc = "s_update"
    \/ pc = "done" /\ call.kind = "apply"

IsPrefix(s, t) == Len(s) <= Len(t) /\ SubSeq(t, 1, Len(s)) = s

Count(s, e) == Cardinality({k \in 1 .. Len(s) : s[k] = e})

\* the steps of _solve(b, x, i) on a hierarchy of n levels, in order
RECURSIVE ExpectedTrace(_, _)
ExpectedTrace(i, n) ==
    IF i + 1 >= n THEN << <<"coarse", i>> >>
    ELSE << <<"presmooth", i>>, <<"residual", i>>, <<"restrict", i>>, <<"recurse", i>> >>
         \o ExpectedTrace(i + 1, n)
         \o << <<"correct", i>>, <<"postsmooth", i>> >>

\* the steps of solve when it runs k iterations, in order
RECURSIVE ExpectedSolveLog(_)
ExpectedSolveLog(k) ==
    IF k = 0 THEN <<"residual">>
    ELSE ExpectedSolveLog(k - 1) \o <<"vcycle", "update", "residual", "increment">>

\* ------------------------------------------------------------------ C1
\* C1: in every V-cycle the steps taken so far are an initial part of
\* presmooth_0, residual_0, restrict_0, recurse_0, <all of level 1>,
\* correct_0, postsmooth_0 (nested the same way at every non-terminal
\* level), and a V-cycle that has returned has taken exactly these steps:
\* each of the six steps once per level, in this order, the deeper levels
\* between restriction and correction.
C1_VCycleOrder ==
    Built =>
        /\ IsPrefix(trace, ExpectedTrace(0, NumLevels))
        /\ CycleDone => trace = ExpectedTrace(0, NumLevels)

C1_Witness ==
    /\ CycleDone
    /\ NumLevels = 3
    /\ call.kind = "solve"
    /\ Len(trace) = 13

\* ------------------------------------------------------------------ C2
\* C2: after init completes the level row counts are strictly decreasing
\* from level 0 to the last level, every non-terminal level has more than
\* 100 rows, and the last level has at most 100 rows.
StrictlyCoarsened ==
    \A l \in 1 .. NumLevels - 1 : levels[l].A.rows > levels[l + 1].A.rows

C2_RowsStrictlyDecreasing ==
    Built =>
        /\ StrictlyCoarsened
        /\ \A l \in 1 .. NumLevels - 1 : levels[l].A.rows > Threshold
        /\ Back.A.rows <= Threshold

\* ------------------------------------------------------------------ C3
\* C3: when a pass of extend_hierarchy appends a level whose row count is
\* not smaller than the previous level's, the build is aborted (it is not
\* at the loop test of init again, about to coarsen or to factorize).
C3_StallAborts ==
    (/\ NumLevels >= 2
     /\ pc = "extend"
     /\ Back.A_.rows >= levels[NumLevels - 1].A_.rows)
    => pc = "aborted"

\* ------------------------------------------------------------------ C4
\* C4, the steps of solve: the initial residual, then per iteration one
\* V-cycle, x += update, the residual again and one monitor increment, in
\* this order; as many V-cycles as increments; the residual is b - A_0*x
\* whenever the monitor is asked; a solve that returns with no V-cycle run
\* leaves x as it was handed in.
C4_SolveLog ==
    (Built /\ call.kind = "solve") =>
        /\ IsPrefix(slog, ExpectedSolveLog(MaxIter))
        /\ call.monitor.count = Count(slog, "increment")
        /\ pc \in {"s_test", "done"} =>
              /\ Count(slog, "vcycle") = Count(slog, "increment")
              /\ Conformant =>
                    call.residual.val =
                        VSub(call.b.val, MatVec(Level(0).A, call.x.val))
        /\ (pc = "done" /\ Count(slog, "vcycle") = 0) => call.x = call.x0

\* C4, the steps of solve one by one: asked about the residual, a finished
\* monitor makes solve return at once and an unfinished one starts a
\* V-cycle on the residual with the update vector as iterate; the update
\* step adds the V-cycle's update to x; only the monitor's own step
\* advances its count.
C4_SolveSteps ==
    (Built /\ call.kind = "solve" /\ call'.kind = "solve" /\ ncalls' = ncalls) =>
        /\ pc = "s_test" =>
              IF Finished(call.monitor, call.residual)
              THEN pc' = "done" /\ call' = call
              ELSE pc' = "v_enter" /\ call' = call /\ lvl' = 0
        /\ (pc = "s_update" /\ Conformant) =>
              /\ call'.x.val = VAdd(call.x.val, call.update.val)
              /\ call'.update = call.update
        /\ pc # "s_update" => call'.x = call.x
        /\ pc # "s_increment" => call'.monitor = call.monitor

\* C4: solve(b, x, monitor) computes r = b - A_0*x, and while the monitor is
\* not finished on r runs one V-cycle on r, adds the update to x, computes
\* r again and increments the monitor once; it returns at the first test
\* the monitor is finished at, with x unchanged when that is the first.
C4_SolveLoop == [](C4_SolveLog) /\ [][C4_SolveSteps]_vars

C4_Witness ==
    /\ call.kind = "solve"
    /\ pc = "done"
    /\ Conformant
    /\ call.monitor.kind = "residual"
    /\ Count(slog, "vcycle") = 2
    /\ call.x # call.x0

\* ------------------------------------------------------------------ C5
\* what the build leaves behind: the levels' operators, transfer operators,
\* aggregates, smoothers and near-null-space vectors, and the factorization
Hierarchy ==
    <<LU, [l \in 1 .. NumLevels |->
             <<levels[l].A, levels[l].A_, levels[l].R, levels[l].P,
               levels[l].aggregates, levels[l].smoother, levels[l].B>>]>>

\* the lengths of the per-level work vectors
WorkLens ==
    [l \in 1 .. NumLevels |->
        <<levels[l].x.len, levels[l].b.len, levels[l].residual.len>>]

\* C5: once built, no step of operator() or solve changes the number of
\* levels, any level's A, R, P, aggregates or smoother, or the LU
\* factorization; the steps write the contents of work vectors and of the
\* caller's x only (no work vector is resized, b is not written).
C5_HierarchyFrozen ==
    [][Built => /\ Hierarchy' = Hierarchy
                /\ WorkLens' = WorkLens
                /\ (ncalls' = ncalls) => (call'.b = call.b)]_vars

C5_Witness ==
    /\ pc = "done"
    /\ ncalls = 2
    /\ NumLevels = 3
    /\ \E l \in 1 .. NumLevels : ~IsZero(levels[l].x) \/ ~IsZero(levels[l].residual)

\* ------------------------------------------------------------------ C6
\* C6: a call of solve or operator() with b or x of a length other than the
\* finest operator's row count performs no step at all: no step of solve,
\* no step of a V-cycle, and x is as it was handed in.
C6_MismatchRejected ==
    (Built /\ call.kind # "none" /\ ~Conformant) =>
        /\ trace = <<>>
        /\ slog = <<>>
        /\ call.x = call.x0

\* ------------------------------------------------------------------ C7
\* a solve call handed vectors of the right length never dies and never
\* runs more V-cycles than the iteration limit of its monitor
C7_AtMostLimitCycles ==
    (Built /\ call.kind = "solve" /\ Conformant) =>
        /\ pc # "fault"
        /\ Count(slog, "vcycle") <= call.monitor.limit
        /\ call.monitor.count <= call.monitor.limit

\* C7: with a monitor that is finished once its iteration count reaches
\* its limit N, whatever the residual, every solve call on vectors of the
\* right length returns, normally, after at most N V-cycles (a call is
\* started at pc = "ready" or "done" only, and nothing follows a fault, so
\* the return reached is the running call's).
C7_SolveTerminates ==
    /\ [](C7_AtMostLimitCycles)
    /\ (call.kind = "solve" /\ Conformant /\ pc # "done") ~> (pc = "done")

C7_Witness ==
    /\ call.kind = "solve"
    /\ Conformant
    /\ pc = "done"
    /\ call.monitor.kind = "iteration"
    /\ call.monitor.limit = MaxIter
    /\ Count(slog, "vcycle") = MaxIter
    /\ ~IsZero(call.residual)

\* ------------------------------------------------------------------ C8
\* C8: in every V-cycle the step taken at the last level, and at no other
\* level, is the direct solve, taken once: no smoother (and no other step)
\* runs at the last level, and the direct solve leaves in that level's x
\* the solution of LU*x = b for that level's right-hand side b.
C8_CoarseSolveOnce ==
    Built =>
        /\ \A k \in 1 .. Len(trace) :
              trace[k][1] = "coarse" <=> trace[k][2] = NumLevels - 1
        /\ Count(trace, <<"coarse", NumLevels - 1>>) <= 1
        /\ CycleDone => Count(trace, <<"coarse", NumLevels - 1>>) = 1
        /\ (/\ trace # <<>>
            /\ trace[Len(trace)][1] = "coarse"
            /\ pc = "v_correct" \/ CycleDone)
           => ArgX(NumLevels - 1).val
                  = VScale(Inv(LU.val), ArgB(NumLevels - 1).val)

C8_Witness ==
    /\ NumLevels = 3
    /\ pc = "v_correct"
    /\ trace[Len(trace)] = <<"coarse", 2>>
    /\ ~IsZero(Level(2).x)
    /\ Level(2).x # Level(2).b

\* ------------------------------------------------------------------ C9
\* the content of the exact solution of A_0*x = b
DirectSolution(b) == VScale(Inv(Level(0).A.val), b)

\* C9: on a hierarchy of one level a V-cycle is the direct solve alone and
\* returns the exact solution of A_0*x = b for its right-hand side; solve
\* started from x0 has x = x0 + DirectSolve(b - A_0*x0) after its first
\* iteration, which solves A_0*x = b, and x stays a solution afterwards.
C9_SingleLevelDirect ==
    (Built /\ NumLevels = 1 /\ Conformant /\ pc # "fault") =>
        /\ CycleDone =>
              /\ trace = << <<"coarse", 0>> >>
              /\ ArgX(0).val = DirectSolution(ArgB(0).val)
        /\ (call.kind = "solve" /\ Count(slog, "update") = 1) =>
              call.x.val =
                  VAdd(call.x0.val,
                       DirectSolution(VSub(call.b.val,
                                           MatVec(Level(0).A, call.x0.val))))
        /\ (call.kind = "solve" /\ Count(slog, "update") >= 1) =>
              MatVec(Level(0).A, call.x.val) = call.b.val

C9_Witness ==
    /\ NumLevels = 1
    /\ call.kind = "solve"
    /\ Conformant
    /\ pc = "done"
    /\ Count(slog, "update") = 1
    /\ ~IsZero(call.x0)
    /\ ~IsZero(call.b)
    /\ call.x # call.x0

\* ----------------------------------------------------------------- C10
\* C10: a V-cycle that solve has run on an all-zero residual has left an
\* all-zero update (so that x += update leaves x unchanged); stated for
\* the hierarchies whose row counts strictly decrease.
C10_ZeroResidualZeroUpdate ==
    (/\ Built
     /\ StrictlyCoarsened
     /\ call.kind = "solve"
     /\ pc = "s_update"
     /\ IsZero(call.residual))
    => IsZero(call.update)

\* ----------------------------------------------------------------- C11
\* C11: at every level that has a successor the stored R has the entries
\* of the stored P with row and column swapped: as many rows as P has
\* columns, as many columns as P has rows, the same values; both are
\* stored (not empty), whether setup_level_matrix swapped or copied them.
C11_RestrictionIsTranspose ==
    \A l \in 1 .. NumLevels - 1 :
        /\ levels[l].P.rows > 0
        /\ levels[l].R.rows = levels[l].P.cols
        /\ levels[l].R.cols = levels[l].P.rows
        /\ levels[l].R.val = levels[l].P.val

C11_Witness ==
    /\ Built
    /\ sameType
    /\ NumLevels = 3
    /\ StrictlyCoarsened
    /\ \A l \in 1 .. 2 : levels[l].P.rows # levels[l].P.cols

\* ----------------------------------------------------------------- C12
\* C12: the values operator_complexity() and grid_complexity() return on a
\* built hierarchy are at least 1, and exactly 1 on a hierarchy of one
\* level, whatever the finest operator (one with no stored entry included).
C12_ComplexitiesAtLeastOne ==
    /\ report.operator_complexity.called =>
          /\ AtLeastOne(report.operator_complexity.value)
          /\ NumLevels = 1 => ExactlyOne(report.operator_complexity.value)
    /\ report.grid_complexity.called =>
          /\ AtLeastOne(report.grid_complexity.value)
          /\ NumLevels = 1 => ExactlyOne(report.grid_complexity.value)

\* ----------------------------------------------------------------- C13
\* C13: the total non-zero count print() has accumulated is the total
\* operator_complexity() has accumulated, on every hierarchy.
C13_PrintTotalIsOperatorTotal ==
    (report.print.called /\ report.operator_complexity.called) =>
        report.print.nnz = report.operator_complexity.total

\* ----------------------------------------------------------------- C14
\* C14: whenever presmooth is about to run at a level, in a V-cycle of
\* solve or in one of operator() called with an all-zero x, the iterate
\* handed to it (solve's update at level 0, levels[i].x below) is all
\* zeros; stated for calls on vectors of the right length and for the
\* hierarchies whose row counts strictly decrease.
C14_PresmoothStartsFromZero ==
    (/\ Built
     /\ StrictlyCoarsened
     /\ Conformant
     /\ call.kind = "solve" \/ IsZero(call.x0)
     /\ pc = "v_enter"
     /\ ~IsCoarsest(lvl))
    => IsZero(ArgX(lvl))

\* ----------------------------------------------------------------- C15
\* C15: once init has finished, the solve-time operator A of every level
\* below the finest is the product R*A*P of the R, A and P stored at the
\* level above it (rows of R, columns of P, the product of the three
\* values), no level is left without its solve-time operator, the finest
\* level's is the operator handed to the constructor, and the
\* factorization is of the last level's solve-time operator: moving A_
\* into A loses nothing the solve phase uses.
C15_GalerkinOperators ==
    Built =>
        /\ Level(0).A = inA
        /\ \A l \in 1 .. NumLevels : levels[l].A.rows > 0
        /\ \A l \in 1 .. NumLevels - 1 :
              /\ levels[l + 1].A.rows = levels[l].R.rows
              /\ levels[l + 1].A.cols = levels[l].P.cols
              /\ levels[l + 1].A.val =
                    Mul(levels[l].R.val, Mul(levels[l].A.val, levels[l].P.val))
        /\ LU.set
        /\ LU.rows = Back.A.rows
        /\ LU.val = Back.A.val

C15_Witness ==
    /\ Built
    /\ sameType
    /\ NumLevels = 3
    /\ StrictlyCoarsened
    /\ inA.val # 1
    /\ Level(1).A_ = NoMat
    /\ Level(2).A.rows = Threshold

\* ----------------------------------------------------------------- C16
\* level l has aggregates, R, P, a smoother and a residual buffer attached
Attached(l) ==
    /\ levels[l].aggregates.len > 0
    /\ levels[l].R.rows > 0
    /\ levels[l].P.rows > 0
    /\ levels[l].smoother.set
    /\ levels[l].residual.len > 0

\* level l has none of them
Bare(l) ==
    /\ levels[l].aggregates = NoVec
    /\ levels[l].R = NoMat
    /\ levels[l].P = NoMat
    /\ levels[l].smoother = NoSmoother
    /\ levels[l].residual = NoVec

\* C16, the levels as they are: the last level is bare, every earlier
\* level has all five attached and more than 100 rows (only such a level
\* was coarsened), and after init the last level has at most 100 rows.
C16_LevelsAttached ==
    NumLevels >= 1 =>
        /\ Bare(NumLevels)
        /\ \A l \in 1 .. NumLevels - 1 :
              /\ Attached(l)
              /\ levels[l].A_.rows > Threshold \/ levels[l].A.rows > Threshold
        /\ Built => Back.A.rows <= Threshold

\* C16, the steps: a step attaches to the last level only, only when that
\* level has more than 100 rows and is bare, and appends one level; what
\* was attached to a level is never attached again or changed.
C16_AttachedOnce ==
    NumLevels >= 1 =>
        /\ \A l \in 1 .. NumLevels - 1 :
              /\ levels'[l].aggregates = levels[l].aggregates
              /\ levels'[l].R = levels[l].R
              /\ levels'[l].P = levels[l].P
              /\ levels'[l].smoother = levels[l].smoother
              /\ levels'[l].residual.len = levels[l].residual.len
        /\ Len(levels') # NumLevels =>
              /\ Len(levels') = NumLevels + 1
              /\ pc = "extend"
              /\ Back.A_.rows > Threshold
        /\ Len(levels') = NumLevels =>
              /\ levels'[NumLevels].aggregates = Back.aggregates
              /\ levels'[NumLevels].R = Back.R
              /\ levels'[NumLevels].P = Back.P
              /\ levels'[NumLevels].smoother = Back.smoother
              /\ levels'[NumLevels].residual = Back.residual

\* C16: after init the last level has no R, P, aggregates, smoother or
\* residual buffer, every earlier level has each of them, attached once,
\* and extend_hierarchy never ran on a level of at most 100 rows.
C16_CoarsestIsBare == [](C16_LevelsAttached) /\ [][C16_AttachedOnce]_vars

C16_Witness ==
    /\ pc = "done"
    /\ NumLevels = 3
    /\ Back.A.rows = Threshold
    /\ Attached(1)
    /\ Attached(2)

\* ----------------------------------------------------------------- C17
\* the operator of the last level: in A_ until init moves it into A
BackOperator == IF pc \in {"init", "extend", "setup"} THEN Back.A_ ELSE Back.A

\* C17, the factorization as it is: there is one exactly when the loop of
\* init is over, it is of the last level's operator, and where a V-cycle
\* invokes the direct solver it is of that level's operator.
C17_FactorizedIsCoarsest ==
    /\ LU.set <=> pc \notin {"init", "extend"}
    /\ LU.set =>
          /\ LU.rows = BackOperator.rows
          /\ LU.val = BackOperator.val
    /\ (pc = "v_enter" /\ IsCoarsest(lvl)) =>
          /\ LU.rows = Level(lvl).A.rows
          /\ LU.val = Level(lvl).A.val

\* C17, the steps: the factorization is written by one step, taken when
\* the last level has at most 100 rows, from that level's operator; once
\* there is one, it is not written again, no level is appended, and the
\* last level's operator keeps its content.
C17_FactorizedOnce ==
    /\ LU' # LU =>
          /\ ~LU.set
          /\ pc = "extend"
          /\ Back.A_.rows <= Threshold
          /\ LU' = [set |-> TRUE, rows |-> Back.A_.rows, val |-> Back.A_.val]
          /\ levels' = levels
    /\ LU.set =>
          /\ LU' = LU
          /\ Len(levels') = Len(levels)
          /\ BackOperator' = BackOperator

\* C17: the coarsest-level factorization is created once per build, after
\* the last level was appended and from its operator, and stays the
\* factorization of the level the direct solver is invoked at.
C17_LUAfterLastLevel == [](C17_FactorizedIsCoarsest) /\ [][C17_FactorizedOnce]_vars

C17_Witness ==
    /\ NumLevels = 3
    /\ sameType
    /\ ncalls = 2
    /\ pc = "v_correct"
    /\ lvl = 1
    /\ LU.rows = Threshold
    /\ LU.val # 1
    /\ ~IsZero(Level(2).x)

\* ----------------------------------------------------------------- C18
\* the row counts n_0 .. n_L of the levels of a built hierarchy
Rows(l) == levels[l].A.rows

\* C18: in a built hierarchy every level's operator is square, P_i is
\* n_i by n_(i+1), R_i is n_(i+1) by n_i, levels[i].residual has n_i
\* entries, levels[i+1].x and levels[i+1].b have n_(i+1), and the
\* factorization is of n_L rows; and in a call on b and x of n_0 entries
\* the operands of the step about to be taken match (the vectors it reads
\* and writes have been sized), so that no step ever ends in a fault.
C18_DimensionsConform ==
    Built =>
        /\ \A l \in 1 .. NumLevels : levels[l].A.cols = Rows(l)
        /\ \A l \in 1 .. NumLevels - 1 :
              /\ levels[l].P.rows = Rows(l)
              /\ levels[l].P.cols = Rows(l + 1)
              /\ levels[l].R.rows = Rows(l + 1)
              /\ levels[l].R.cols = Rows(l)
              /\ levels[l].residual.len = Rows(l)
              /\ levels[l + 1].x.len = Rows(l + 1)
              /\ levels[l + 1].b.len = Rows(l + 1)
        /\ LU.rows = Rows(NumLevels)
        /\ Conformant =>
              /\ StepConforms
              /\ pc # "fault"
              /\ ArgB(lvl).len = Rows(lvl + 1)
              /\ ArgX(lvl).len = Rows(lvl + 1)

C18_Witness ==
    /\ NumLevels = 3
    /\ StrictlyCoarsened
    /\ Conformant
    /\ ncalls = 2
    /\ pc = "v_correct"
    /\ lvl = 1
    /\ Level(2).x.len = Threshold
    /\ Level(1).residual.len = Threshold + 1
====
